---- MODULE Spec2Model ----
(***************************************************************************)
(* Model of create_github_repos.py: one run of the script, from the        *)
(* console clear at start-up to the exit of the process.                   *)
(*                                                                         *)
(* Strings are sequences of chunks.  A string typed by the user is a       *)
(* sequence of one-character chunks; a literal of the script ("gh",        *)
(* "python-challenge-", "./") is one chunk; concatenation is \o.           *)
(* An optional value (Python None or a value) is <<>> or <<value>>.        *)
(* argparse's own exits (-h, unknown flags) happen inside parse_args and   *)
(* are not part of the script; the command lines modelled are the ones     *)
(* parse_args accepts.                                                     *)
(***************************************************************************)
EXTENDS Integers, Sequences, FiniteSets, TLC

VARIABLES
    os_name,          \* os.name of the host
    argv,             \* the parsed flags: args.folder_name, args.repo_desc, args.repo_visibility
    pc,               \* position of the run
    folder_name,      \* main()'s locals, set by argument_parser()
    repo_name,
    repo_desc,
    repo_visibility,
    ops,              \* every external operation issued so far, in order
    out,              \* every message printed so far, in order
    remote_repos,     \* repositories gh repo create has created
    exc,              \* the exception that escaped main(), "" when none
    exit_code         \* the process's exit code, -1 while it runs

vars == <<os_name, argv, pc, folder_name, repo_name, repo_desc, repo_visibility,
          ops, out, remote_repos, exc, exit_code>>

-----------------------------------------------------------------------------
(* Bounds of the inputs *)

MaxFolderLen == 3
MaxDescLen == 2

FolderChars == {"a", "B", "."}
DescChars == {"a", "B", "ß"}

RECURSIVE StringsUpTo(_, _)
StringsUpTo(chars, n) ==
    IF n = 0 THEN {<<>>}
    ELSE LET shorter == StringsUpTo(chars, n - 1)
         IN  shorter \cup {Append(s, c) : s \in shorter, c \in chars}

None == <<>>
Some(v) == <<v>>
IsNone(o) == Len(o) = 0
Value(o) == o[1]

FolderArgs == {None} \cup {Some(s) : s \in StringsUpTo(FolderChars, MaxFolderLen)}
DescArgs == {None} \cup {Some(s) : s \in StringsUpTo(DescChars, MaxDescLen)}
VisibilityArgs == {None, Some(<<"P", "r", "i", "v", "a", "t", "e">>)}

-----------------------------------------------------------------------------
(* Python's string operations, on the characters the inputs are drawn from *)

\* str.lower() of one character
LowerChar(c) ==
    CASE c = "B" -> "b"
      [] c = "P" -> "p"
      [] OTHER -> c

\* str.lower()
lower(s) == [i \in 1..Len(s) |-> LowerChar(s[i])]

\* str.title() of a one-character string: a string, "ß" titlecases to "Ss"
title(c) ==
    CASE c = "a" -> <<"A">>
      [] c = "ß" -> <<"S", "s">>
      [] OTHER -> <<c>>

\* str.split(sep): the list of the segments between the separators
RECURSIVE split(_, _)
split(s, sep) ==
    IF \A i \in 1..Len(s) : s[i] # sep THEN <<s>>
    ELSE LET i == CHOOSE k \in 1..Len(s) :
                      s[k] = sep /\ \A j \in 1..(k - 1) : s[j] # sep
         IN  <<SubSeq(s, 1, i - 1)>> \o split(SubSeq(s, i + 1, Len(s)), sep)

\* seq[i] with Python's 0-based index: None stands for IndexError
Subscript(seq, i) == IF i < Len(seq) THEN Some(seq[i + 1]) ELSE None

\* s[1:]
Tail1(s) == SubSeq(s, 2, Len(s))

-----------------------------------------------------------------------------
(* argument_parser *)

PREFIX == <<"python-challenge-">>

add_prefix_dropped(name) == name
add_prefix(name) == PREFIX \o name

\* len(sys.argv): the program name and, per flag given, the flag and its value
ArgvLen(a) ==
    1 + (IF IsNone(a.folder_name) THEN 0 ELSE 2)
      + (IF IsNone(a.repo_desc) THEN 0 ELSE 2)
      + (IF IsNone(a.repo_visibility) THEN 0 ELSE 2)

NoArgumentsNever(a) == ArgvLen(a) = 0
NoArguments(a) == ArgvLen(a) = 1

parsed_folder_name(a) ==
    IF IsNone(a.folder_name) THEN <<>> ELSE lower(Value(a.folder_name))

\* args.repo_desc[0].title() + args.repo_desc[1:], None for the IndexError of [0]
parsed_repo_desc(a) ==
    IF IsNone(a.repo_desc) THEN Some(<<>>)
    ELSE LET d == Value(a.repo_desc)
             first == Subscript(d, 0)
         IN  IF IsNone(first) THEN None
             ELSE Some(title(Value(first)) \o Tail1(d))

parsed_repo_visibility(a) ==
    IF IsNone(a.repo_visibility) THEN lower(<<"P", "u", "b", "l", "i", "c">>)
    ELSE lower(Value(a.repo_visibility))

\* folder_name.split(".")[1], None for the IndexError
repo_name_segment_first(fn) == Subscript(split(fn, "."), 0)
repo_name_segment(fn) == Subscript(split(fn, "."), 1)

parsed_repo_name(a) ==
    LET seg == repo_name_segment(parsed_folder_name(a))
    IN  IF IsNone(seg) THEN None ELSE Some(add_prefix(lower(Value(seg))))

\* whether the else branch of argument_parser raises IndexError
ParserRaises(a) == IsNone(parsed_repo_desc(a)) \/ IsNone(parsed_repo_name(a))

-----------------------------------------------------------------------------
(* External operations *)

Outcomes == {"exit0", "nonzero", "oserror"}

Op(api, cmd, cwd, outcome, ret) ==
    [api |-> api, cmd |-> cmd, cwd |-> cwd, outcome |-> outcome, ret |-> ret]

\* run_command: the call it makes, what it returns and what it prints
run_command(cmd, pCWD, outcome) ==
    [op  |-> Op("run_command", cmd, pCWD, outcome,
                CASE outcome = "exit0" -> "True"
                  [] outcome = "nonzero" -> "False"
                  [] OTHER -> "None"),
     out |-> CASE outcome = "exit0" -> <<>>
               [] outcome = "nonzero" ->
                      <<"Failed to run command", "Exception", "STERR", "STOUT">>
               [] OTHER -> <<"Unexpected error while running command">>]

\* Python's truth value of what run_command returns
TruthyNotFalse(v) == v # "False"
Truthy(v) == v = "True"

RepoDir(name) == <<"./">> \o name

cls_cmd(osn) == IF osn = "nt" THEN <<<<"cls">>>> ELSE <<<<"clear">>>>
auth_cmd == <<<<"gh">>, <<"auth">>, <<"status">>>>
create_cmd(name, desc, vis) ==
    <<<<"gh">>, <<"repo">>, <<"create">>, name, <<"--">> \o vis,
      <<"--description">>, desc, <<"--clone">>, <<"--disable-wiki">>>>
edit_cmd ==
    <<<<"gh">>, <<"repo">>, <<"edit">>, <<"--enable-projects=false">>,
      <<"--delete-branch-on-merge">>>>
get_repo_cmd ==
    <<<<"gh">>, <<"repo">>, <<"view">>, <<"--json">>, <<"owner,name">>, <<"-q">>,
      <<".owner.login + \"/\" + .name">>>>
branch_name == <<"main">>
readme_file == <<"README.md">>
readme_file_path(name) == <<"./">> \o name \o <<"/">> \o readme_file
git_add_cmd == <<<<"git">>, <<"add">>, readme_file>>
git_commit_cmd == <<<<"git">>, <<"commit">>, <<"-m">>, <<"Initial commit">>>>
git_branch_cmd == <<<<"git">>, <<"branch">>, <<"-M">>, branch_name>>
git_push_cmd == <<<<"git">>, <<"push">>, <<"origin">>, <<"main">>>>
rename_folder_cmd_swapped(name, folder) == <<<<"mv">>, folder, name>>
rename_folder_cmd(name, folder) == <<<<"mv">>, name, folder>>

-----------------------------------------------------------------------------
(* The run *)

Init ==
    /\ os_name \in {"posix", "nt"}
    /\ argv \in [folder_name : FolderArgs, repo_desc : DescArgs,
                 repo_visibility : VisibilityArgs]
    /\ pc = "cls"
    /\ folder_name = <<>>
    /\ repo_name = <<>>
    /\ repo_desc = <<>>
    /\ repo_visibility = <<>>
    /\ ops = <<>>
    /\ out = <<>>
    /\ remote_repos = {}
    /\ exc = ""
    /\ exit_code = -1

locals == <<folder_name, repo_name, repo_desc, repo_visibility>>

\* An exception leaves main(): the interpreter prints the traceback and exits with 1
Uncaught(e) ==
    /\ exc' = e
    /\ out' = Append(out, "Traceback")
    /\ exit_code' = 1
    /\ pc' = "exited"

\* cls(): os.system of the console-clearing command, its status ignored
cls ==
    /\ pc = "cls"
    /\ \E o \in {"exit0", "nonzero"} :
           ops' = Append(ops, Op("os.system", cls_cmd(os_name), None, o, "status"))
    /\ pc' = "argument_parser"
    /\ UNCHANGED <<os_name, argv, locals, out, remote_repos, exc, exit_code>>

\* argument_parser(), no arguments: print_help() and sys.exit(1)
argument_parser_usage ==
    /\ pc = "argument_parser"
    /\ NoArguments(argv)
    /\ out' = Append(out, "help")
    /\ exit_code' = 1
    /\ pc' = "exited"
    /\ UNCHANGED <<os_name, argv, locals, ops, remote_repos, exc>>

\* argument_parser(), else branch, args.repo_desc[0] or split(".")[1] out of range
argument_parser_raises ==
    /\ pc = "argument_parser"
    /\ ~NoArguments(argv)
    /\ ParserRaises(argv)
    /\ Uncaught("IndexError")
    /\ UNCHANGED <<os_name, argv, locals, ops, remote_repos>>

\* argument_parser(), else branch, returning the four values
argument_parser_returns ==
    /\ pc = "argument_parser"
    /\ ~NoArguments(argv)
    /\ ~ParserRaises(argv)
    /\ folder_name' = parsed_folder_name(argv)
    /\ repo_desc' = Value(parsed_repo_desc(argv))
    /\ repo_visibility' = parsed_repo_visibility(argv)
    /\ repo_name' = Value(parsed_repo_name(argv))
    /\ pc' = "print_parameters"
    /\ UNCHANGED <<os_name, argv, ops, out, remote_repos, exc, exit_code>>

print_parameters ==
    /\ pc = "print_parameters"
    /\ out' = out \o <<"Data to be used", "Folder name", "Repo name", "Repo desc",
                       "Repo visibility">>
    /\ pc' = "is_logged_to_gh"
    /\ UNCHANGED <<os_name, argv, locals, ops, remote_repos, exc, exit_code>>

\* is_logged_to_gh() and main()'s branch on it
is_logged_to_gh ==
    /\ pc = "is_logged_to_gh"
    /\ \E o \in Outcomes :
         LET r == run_command(auth_cmd, None, o)
         IN  /\ ops' = Append(ops, r.op)
             /\ IF Truthy(r.op.ret)
                THEN /\ out' = out \o <<"Checking if user is logged">> \o r.out
                                   \o <<"You are logged into GitHub CLI">>
                     /\ pc' = "create_gh_repo"
                ELSE /\ out' = out \o <<"Checking if user is logged">> \o r.out
                                   \o <<"You are NOT logged into GitHub CLI">>
                     /\ pc' = "return"
    /\ UNCHANGED <<os_name, argv, locals, remote_repos, exc, exit_code>>

\* create_gh_repo() and main()'s branch on it
create_gh_repo ==
    /\ pc = "create_gh_repo"
    /\ \E o \in Outcomes :
         LET r == run_command(create_cmd(repo_name, repo_desc, repo_visibility), None, o)
         IN  /\ ops' = Append(ops, r.op)
             /\ remote_repos' = IF o = "exit0" THEN remote_repos \cup {repo_name}
                                ELSE remote_repos
             /\ IF Truthy(r.op.ret)
                THEN /\ out' = out \o <<"Creating GitHub Repo">> \o r.out
                     /\ pc' = "configure_basic_repo_settings"
                ELSE /\ out' = out \o <<"Creating GitHub Repo">> \o r.out
                                   \o <<"Something went wrong">>
                     /\ pc' = "return"
    /\ UNCHANGED <<os_name, argv, locals, exc, exit_code>>

\* configure_basic_repo_settings(); main() has no else branch for it
configure_basic_repo_settings ==
    /\ pc = "configure_basic_repo_settings"
    /\ \E o \in Outcomes :
         LET r == run_command(edit_cmd, Some(RepoDir(repo_name)), o)
         IN  /\ ops' = Append(ops, r.op)
             /\ IF Truthy(r.op.ret)
                THEN /\ out' = out \o <<"Configuring basic repo settings">> \o r.out
                                   \o <<"Repository updated successfully">>
                     /\ pc' = "init_repo"
                ELSE /\ out' = out \o <<"Configuring basic repo settings">> \o r.out
                     /\ pc' = "return"
    /\ UNCHANGED <<os_name, argv, locals, remote_repos, exc, exit_code>>

\* init_repo(): subprocess.check_output of gh repo view, outside any try
init_repo_view ==
    /\ pc = "init_repo"
    /\ \E o \in Outcomes :
         IF o = "exit0"
         THEN /\ ops' = Append(ops, Op("check_output", get_repo_cmd,
                                       Some(RepoDir(repo_name)), o, "stdout"))
              /\ pc' = "init_repo_readme"
              /\ UNCHANGED <<out, exc, exit_code>>
         ELSE /\ ops' = Append(ops, Op("check_output", get_repo_cmd,
                                       Some(RepoDir(repo_name)), o, "raised"))
              /\ Uncaught(IF o = "nonzero" THEN "CalledProcessError" ELSE "OSError")
    /\ UNCHANGED <<os_name, argv, locals, remote_repos>>

\* init_repo(): open(README.md, "a") and write, outside any try
init_repo_readme ==
    /\ pc = "init_repo_readme"
    /\ \E o \in {"exit0", "oserror"} :
         IF o = "exit0"
         THEN /\ ops' = Append(ops, Op("open-append",
                                       <<readme_file_path(repo_name), repo_desc \o <<"\n">>>>,
                                       None, o, "written"))
              /\ out' = Append(out, "README.md has been initialized")
              /\ pc' = "init_repo_add"
              /\ UNCHANGED <<exc, exit_code>>
         ELSE /\ ops' = Append(ops, Op("open-append",
                                       <<readme_file_path(repo_name), repo_desc \o <<"\n">>>>,
                                       None, o, "raised"))
              /\ Uncaught("OSError")
    /\ UNCHANGED <<os_name, argv, locals, remote_repos>>

\* One run_command step of init_repo(): on success print and go on, otherwise
\* init_repo() returns False and main() falls through to its end
InitStep(here, cmd, printed, next) ==
    /\ pc = here
    /\ \E o \in Outcomes :
         LET r == run_command(cmd, Some(RepoDir(repo_name)), o)
         IN  /\ ops' = Append(ops, r.op)
             /\ IF Truthy(r.op.ret)
                THEN /\ out' = out \o r.out \o <<printed>>
                     /\ pc' = next
                ELSE /\ out' = out \o r.out
                     /\ pc' = "return"
    /\ UNCHANGED <<os_name, argv, locals, remote_repos, exc, exit_code>>

init_repo_add ==
    InitStep("init_repo_add", git_add_cmd, "README.md has been added to the repo",
             "init_repo_commit")

init_repo_commit_skips_branch ==
    InitStep("init_repo_commit", git_commit_cmd, "Initial commit has been completed",
             "init_repo_push")
init_repo_commit ==
    InitStep("init_repo_commit", git_commit_cmd, "Initial commit has been completed",
             "init_repo_branch")

init_repo_branch ==
    InitStep("init_repo_branch", git_branch_cmd, "Branch has been set to main",
             "init_repo_push")

init_repo_push ==
    InitStep("init_repo_push", git_push_cmd, "Commit has been pushed to remote",
             "rename_folder")

\* rename_folder() and main()'s branch on it
rename_folder ==
    /\ pc = "rename_folder"
    /\ \E o \in Outcomes :
         LET r == run_command(rename_folder_cmd(repo_name, folder_name), None, o)
         IN  /\ ops' = Append(ops, r.op)
             /\ IF Truthy(r.op.ret)
                THEN out' = out \o <<"Renaming folder">> \o r.out \o <<"Done">>
                ELSE out' = out \o <<"Renaming folder">> \o r.out
             /\ pc' = "return"
    /\ UNCHANGED <<os_name, argv, locals, remote_repos, exc, exit_code>>

\* main() returns: the script ends, exit code 0
main_returns ==
    /\ pc = "return"
    /\ exit_code' = 0
    /\ pc' = "exited"
    /\ UNCHANGED <<os_name, argv, locals, ops, out, remote_repos, exc>>

Next ==
    \/ cls
    \/ argument_parser_usage
    \/ argument_parser_raises
    \/ argument_parser_returns
    \/ print_parameters
    \/ is_logged_to_gh
    \/ create_gh_repo
    \/ configure_basic_repo_settings
    \/ init_repo_view
    \/ init_repo_readme
    \/ init_repo_add
    \/ init_repo_commit
    \/ init_repo_branch
    \/ init_repo_push
    \/ rename_folder
    \/ main_returns

Spec == Init /\ [][Next]_vars

-----------------------------------------------------------------------------
(* Vocabulary of the properties *)

Range(s) == {s[i] : i \in 1..Len(s)}
Last(s) == s[Len(s)]

\* argument_parser() has returned its four values to main()
ParserReturned == Len(repo_name) > 0

\* the resolver has finished, one way or another
PastParser == pc \notin {"cls", "argument_parser"}

\* the folder name of the command line holds no "." (an omitted -f is "")
NoDot(a) ==
    IsNone(a.folder_name)
    \/ \A i \in 1..Len(Value(a.folder_name)) : Value(a.folder_name)[i] # "."

\* fn[i] is the first "." of fn and j is the place of the next one (or the end)
SegmentBounds(fn, i, j) ==
    /\ fn[i] = "."
    /\ \A k \in 1..(i - 1) : fn[k] # "."
    /\ j = Len(fn) + 1 \/ fn[j] = "."
    /\ \A k \in (i + 1)..(j - 1) : fn[k] # "."

\* y is the text between the first "." of fn and the next "." (or the end)
IsSecondSegment(fn, y) ==
    \E i \in 1..Len(fn) : \E j \in (i + 1)..(Len(fn) + 1) :
        SegmentBounds(fn, i, j) /\ y = SubSeq(fn, i + 1, j - 1)

\* t is s with every character lowercased, character by character
IsLowercaseOf(t, s) ==
    /\ Len(t) = Len(s)
    /\ \A k \in 1..Len(s) : t[k] = LowerChar(s[k])

\* the upper-case form of one character, as a single character
UpperChar(c) == IF c = "a" THEN "A" ELSE c

IsCommand(op) == op.api \in {"run_command", "check_output"}
IsCreate(op) ==
    IsCommand(op) /\ Len(op.cmd) >= 4 /\ op.cmd[1] = <<"gh">> /\ op.cmd[3] = <<"create">>
IsMv(op) == IsCommand(op) /\ op.cmd[1] = <<"mv">>
IsPipelineStep(op) == op.api = "run_command"

\* what the outside world sees of an operation
Seen(op) == <<op.api, op.cmd, op.cwd>>
SeenOps(s) == [i \in 1..Len(s) |-> Seen(s[i])]
IsPrefix(s, t) == Len(s) <= Len(t) /\ s = SubSeq(t, 1, Len(s))

AllSucceeded == \A i \in 1..Len(ops) : ops[i].outcome = "exit0"

-----------------------------------------------------------------------------
(* C1: fail-fast.  No operation follows a run_command call that returned    *)
(* anything but True; gh repo create is issued only right after a gh auth   *)
(* status that returned True, mv only right after a git push that returned  *)
(* True.                                                                    *)
C1_FailFast ==
    /\ \A i \in 1..Len(ops) : \A j \in (i + 1)..Len(ops) :
           IsPipelineStep(ops[i]) => ops[i].ret = "True" /\ ops[i].outcome = "exit0"
    /\ \A j \in 1..Len(ops) :
           /\ IsCreate(ops[j]) =>
                  j > 1 /\ ops[j - 1].cmd = auth_cmd /\ ops[j - 1].ret = "True"
           /\ IsMv(ops[j]) =>
                  j > 1 /\ ops[j - 1].cmd = git_push_cmd /\ ops[j - 1].ret = "True"

\* a run that ended because git commit could not be launched
C1_Witness ==
    /\ pc = "exited"
    /\ Len(ops) > 0
    /\ Last(ops).cmd = git_commit_cmd
    /\ Last(ops).ret = "None"

-----------------------------------------------------------------------------
(* C2 *)

\* the operations of a run in which everything succeeds, console clear and
\* gh repo view included
SuccessfulRun ==
    << <<"os.system", cls_cmd(os_name), None>>,
       <<"run_command", <<<<"gh">>, <<"auth">>, <<"status">>>>, None>>,
       <<"run_command",
         <<<<"gh">>, <<"repo">>, <<"create">>, repo_name, <<"--">> \o repo_visibility,
           <<"--description">>, repo_desc, <<"--clone">>, <<"--disable-wiki">>>>,
         None>>,
       <<"run_command",
         <<<<"gh">>, <<"repo">>, <<"edit">>, <<"--enable-projects=false">>,
           <<"--delete-branch-on-merge">>>>,
         Some(<<"./">> \o repo_name)>>,
       <<"check_output",
         <<<<"gh">>, <<"repo">>, <<"view">>, <<"--json">>, <<"owner,name">>, <<"-q">>,
           <<".owner.login + \"/\" + .name">>>>,
         Some(<<"./">> \o repo_name)>>,
       <<"open-append",
         <<<<"./">> \o repo_name \o <<"/", "README.md">>, repo_desc \o <<"\n">>>>,
         None>>,
       <<"run_command", <<<<"git">>, <<"add">>, <<"README.md">>>>,
         Some(<<"./">> \o repo_name)>>,
       <<"run_command", <<<<"git">>, <<"commit">>, <<"-m">>, <<"Initial commit">>>>,
         Some(<<"./">> \o repo_name)>>,
       <<"run_command", <<<<"git">>, <<"branch">>, <<"-M">>, <<"main">>>>,
         Some(<<"./">> \o repo_name)>>,
       <<"run_command", <<<<"git">>, <<"push">>, <<"origin">>, <<"main">>>>,
         Some(<<"./">> \o repo_name)>>,
       <<"run_command", <<<<"mv">>, repo_name, folder_name>>, None>> >>

\* the nine operations the claim lists
IsListed(x) == x[1] \notin {"os.system", "check_output"}

\* the operations of the run that are not the console clear
NotConsoleClear(op) == op.api # "os.system"

(* C2, as amended: in a run where every external operation succeeds, the    *)
(* operations are exactly, each once and in this order: the console clear,  *)
(* gh auth status, gh repo create, gh repo edit, gh repo view, the README   *)
(* append, git add, git commit, git branch -M main, git push origin main,   *)
(* mv; "Done" is printed once, last, and only after all of them.            *)
C2_SuccessfulRun ==
    AllSucceeded =>
        /\ IsPrefix(SeenOps(ops), SuccessfulRun)
        /\ (pc = "exited" /\ ParserReturned) =>
               /\ SeenOps(ops) = SuccessfulRun
               /\ Last(out) = "Done"
               /\ Cardinality({i \in 1..Len(out) : out[i] = "Done"}) = 1
        /\ "Done" \in Range(out) => SeenOps(ops) = SuccessfulRun

\* a run that printed Done and ended
C2_Witness ==
    /\ AllSucceeded
    /\ pc = "exited"
    /\ ParserReturned
    /\ "Done" \in Range(out)

(* C2 as stated, the console clear left aside: the operations of an         *)
(* all-success run are the nine listed, with nothing between them.          *)
C2_Original ==
    AllSucceeded =>
        IsPrefix(SeenOps(SelectSeq(ops, NotConsoleClear)),
                 SelectSeq(SuccessfulRun, IsListed))

-----------------------------------------------------------------------------
(* C3: every run of main() that reaches the pipeline and ends without       *)
(* printing Done has printed one of main()'s failure messages.              *)
C3_Original ==
    (pc = "exited" /\ ParserReturned /\ exc = "" /\ "Done" \notin Range(out)) =>
        \/ "Something went wrong" \in Range(out)
        \/ "You are NOT logged into GitHub CLI" \in Range(out)

-----------------------------------------------------------------------------
(* C4: run_command returns a boolean, True exactly when the process exits   *)
(* with code 0 and False in every other outcome.                            *)
C4_Original ==
    \A i \in 1..Len(ops) :
        IsPipelineStep(ops[i]) =>
            /\ ops[i].ret \in {"True", "False"}
            /\ ops[i].ret = "True" <=> ops[i].outcome = "exit0"

-----------------------------------------------------------------------------
(* C5: when gh repo view or the README append fails inside init_repo, the   *)
(* run ends normally: nothing escapes main() and mv is not invoked.         *)
C5_Original ==
    (/\ pc = "exited"
     /\ Len(ops) > 0
     /\ Last(ops).api \in {"check_output", "open-append"}
     /\ Last(ops).outcome # "exit0") =>
        /\ exc = ""
        /\ exit_code = 0

-----------------------------------------------------------------------------
(* C6, as amended: with no CLI arguments the help text is printed, the      *)
(* process exits with code 1, no repository is created, and the only        *)
(* external command of the whole run is the console clear of cls(), issued  *)
(* once at start-up: no gh, git or mv command.                              *)
C6_NoArguments ==
    ArgvLen(argv) = 1 =>
        /\ IsPrefix(SeenOps(ops), << <<"os.system", cls_cmd(os_name), None>> >>)
        /\ remote_repos = {}
        /\ PastParser =>
               /\ pc = "exited"
               /\ out = <<"help">>
               /\ exit_code = 1
               /\ exc = ""
               /\ Len(ops) = 1

C6_Witness ==
    /\ ArgvLen(argv) = 1
    /\ pc = "exited"
    /\ "help" \in Range(out)

(* C6 as stated: no external command at any point of the run. *)
C6_Original ==
    ArgvLen(argv) = 1 => ops = <<>>

-----------------------------------------------------------------------------
(* C7: with at least one argument and a folder name without ".", the        *)
(* resolver raises: the run ends with an uncaught IndexError, no gh, git or *)
(* mv command was issued and no remote repository exists.                   *)
C7_NoDotCrashes ==
    (ArgvLen(argv) > 1 /\ NoDot(argv)) =>
        /\ \A i \in 1..Len(ops) : ops[i].api = "os.system"
        /\ remote_repos = {}
        /\ PastParser =>
               /\ pc = "exited"
               /\ exc = "IndexError"
               /\ exit_code = 1
               /\ ~ParserReturned

\* -f sandbox-like: a non-empty folder name without "." and a description
\* that does not itself make the resolver raise
C7_Witness ==
    /\ pc = "exited"
    /\ ~IsNone(argv.folder_name)
    /\ Len(Value(argv.folder_name)) > 0
    /\ NoDot(argv)
    /\ (IsNone(argv.repo_desc) \/ Len(Value(argv.repo_desc)) > 0)
    /\ exc = "IndexError"

-----------------------------------------------------------------------------
(* C8, as amended: the mv command's source is the derived repo name (the    *)
(* name given to gh repo create) and its destination is the folder name the *)
(* user supplied, lowercased.                                               *)
C8_RenameTarget ==
    \A i \in 1..Len(ops) :
        IsMv(ops[i]) =>
            /\ ~IsNone(argv.folder_name)
            /\ Len(ops[i].cmd) = 3
            /\ ops[i].cmd[2] = repo_name
            /\ \E j \in 1..(i - 1) : IsCreate(ops[j]) /\ ops[j].cmd[4] = ops[i].cmd[2]
            /\ IsLowercaseOf(ops[i].cmd[3], Value(argv.folder_name))

\* mv issued for a folder name typed with an upper-case letter
C8_Witness ==
    /\ Len(ops) > 0
    /\ IsMv(Last(ops))
    /\ "B" \in Range(Value(argv.folder_name))

(* C8 as stated: the destination is the folder name exactly as supplied. *)
C8_Original ==
    \A i \in 1..Len(ops) :
        IsMv(ops[i]) =>
            /\ ops[i].cmd[2] = repo_name
            /\ ops[i].cmd[3] = Value(argv.folder_name)

-----------------------------------------------------------------------------
(* C9: for every -rd string, the empty one included, the resolver returns   *)
(* it with the first character upper-cased, the rest unchanged, the length  *)
(* kept.                                                                    *)
C9_Original ==
    (/\ PastParser
     /\ ~NoDot(argv)
     /\ ~IsNone(argv.repo_desc)) =>
        /\ ParserReturned
        /\ Len(repo_desc) = Len(Value(argv.repo_desc))
        /\ \A k \in 1..Len(repo_desc) :
               repo_desc[k] = IF k = 1 THEN UpperChar(Value(argv.repo_desc)[k])
                              ELSE Value(argv.repo_desc)[k]

-----------------------------------------------------------------------------
(* C10, as amended: whenever the resolver returns, the repo name is         *)
(* "python-challenge-" followed by the lowercased second dot-delimited      *)
(* segment of the folder name; it is the name given to gh repo create, the  *)
(* directory of the README append and the working directory ("./" + name)   *)
(* of every later gh and git command; the final mv runs in the process's    *)
(* own working directory and takes the name as its source.                  *)
C10_RepoName ==
    ParserReturned =>
        /\ ~NoDot(argv)
        /\ repo_name[1] = "python-challenge-"
        /\ \E i \in 1..Len(Value(argv.folder_name)) :
           \E j \in (i + 1)..(Len(Value(argv.folder_name)) + 1) :
               /\ SegmentBounds(Value(argv.folder_name), i, j)
               /\ IsLowercaseOf(SubSeq(repo_name, 2, Len(repo_name)),
                                SubSeq(Value(argv.folder_name), i + 1, j - 1))
        /\ \A i \in 1..Len(ops) :
               /\ IsCreate(ops[i]) => ops[i].cmd[4] = repo_name
               /\ (IsCommand(ops[i]) /\ ops[i].cmd[1] \in {<<"gh">>, <<"git">>}
                   /\ \E j \in 1..(i - 1) : IsCreate(ops[j])) =>
                      ops[i].cwd = Some(<<"./">> \o repo_name)
               /\ ops[i].api = "open-append" =>
                      ops[i].cmd[1] = <<"./">> \o repo_name \o <<"/", "README.md">>
               /\ IsMv(ops[i]) => ops[i].cwd = None /\ ops[i].cmd[2] = repo_name

\* the whole pipeline ran for a folder name with an upper-case second segment
C10_Witness ==
    /\ ParserReturned
    /\ Len(ops) > 0
    /\ IsMv(Last(ops))
    /\ \E y \in {<<"B">>, <<"B", "a">>, <<"a", "B">>} :
           IsSecondSegment(Value(argv.folder_name), y)

(* C10 as stated: the repo name is the working directory of every step      *)
(* that follows gh repo create.                                             *)
C10_Original ==
    \A i \in 1..Len(ops) :
        (IsCommand(ops[i]) /\ \E j \in 1..(i - 1) : IsCreate(ops[j])) =>
            ops[i].cwd = Some(<<"./">> \o repo_name)

====
